---- MODULE Spec2Model ----
(***************************************************************************)
(* mapbuild.py: a batch pipeline that classifies the corners of a tile     *)
(* grid into biomes, repairs illegal neighbouring biome pairs, places      *)
(* trees, renders one ground tile per cell and pastes the forests.         *)
(*                                                                         *)
(* Noise values (pnoise2) and the asset directory are inputs of a run.     *)
(* Noise is kept in hundredths (0.20 is 20); random draws in 1/10000.      *)
(***************************************************************************)
EXTENDS Integers, Sequences, FiniteSets, TLC

\* ------------------------------------------------------------------ bounds
\* GRID cells per side; the corner grid is (GRID+1) x (GRID+1).
GRID == 2
\* Decorative tiles in a solid_<biome>.png strip, where the strips exist.
MaxExtra == 2

\* Hash randomisation: the string-hash seeds a run may start with.
HashSeeds == {0, 1}

\* --------------------------------------------------------------- constants
MaxPasses == 4
NoneBiome == "none"

Names == <<"water", "desert", "darkgrass", "grass">>

\* The BIOMES dict in declaration (insertion) order; density is in 1/10000.
\* The rule lambdas are the operator Rule below.
CodeBIOMES ==
  << [name |-> "water",     priority |-> 0, density |-> 1000, fallback |-> "grass"],
     [name |-> "desert",    priority |-> 2, density |-> 1500, fallback |-> "darkgrass"],
     [name |-> "darkgrass", priority |-> 1, density |-> 1800, fallback |-> "grass"],
     [name |-> "grass",     priority |-> 3, density |-> 2500, fallback |-> "grass"] >>

\* The biome catalogue of the repair scenario: desert falls back to grass
\* and there is no darkgrass.
ScenarioBIOMES ==
  << [name |-> "water",  priority |-> 0, density |-> 1000, fallback |-> "grass"],
     [name |-> "desert", priority |-> 2, density |-> 1500, fallback |-> "grass"],
     [name |-> "grass",  priority |-> 3, density |-> 2500, fallback |-> "grass"] >>
ScenarioFiles == << <<"water", "grass">>, <<"grass", "desert">> >>

\* The overlay kinds of the path engine.
PathKinds == {"river", "road"}

\* Corner and cell coordinates are <<y, x>>, as the code indexes corners[y,x].
Corners == (0..GRID) \X (0..GRID)
Cells   == (0..(GRID-1)) \X (0..(GRID-1))

\* One noise sample per corner: the three perlin values the rules read
\* (bases 101, 202, 303), in hundredths.
NoiseSamples ==
  { [n101 |-> -20, n202 |-> 30, n303 |-> -20],
    [n101 |->   0, n202 |-> 30, n303 |-> -20],
    [n101 |->   0, n202 |->  0, n303 |-> -20],
    [n101 |->   0, n202 |->  0, n303 |->   0] }
CalmSample == [n101 |-> 0, n202 |-> 0, n303 |-> 0]

\* The transition_<hi>_<lo>.png files the asset directory may hold, in the
\* order the directory lists them.
SheetFiles ==
  << <<"water", "grass">>, <<"grass", "desert">>, <<"darkgrass", "grass">> >>

VARIABLES
  BIOMES,      \* the biome table (a module-level dict)
  SHEETS,      \* sequence of <<hi, lo>> keys, in glob order
  EXTRA,       \* biome -> number of decorative tiles (solid_<b>.png)
  hashseed,    \* the run's string-hash seed
  noise,       \* corner -> noise sample
  corners,     \* corner -> biome
  classified,  \* history: the grid as the classifier left it
  pc,          \* phase of the script
  passes,      \* repair() calls completed
  cursor,      \* <<y, x, d>> the edge repair() examines next (d: 1 = (1,0), 2 = (0,1))
  changed,     \* repair()'s counter in the running call
  moved,       \* history: corners whose value the running call really altered
  scans,       \* history: per completed call, <<returned count, corners altered>>
  rngpos,      \* 32-bit words RNG has produced so far
  tree_mask,   \* cells holding a tree
  gcur,        \* <<y, x>> the cell the ground loop renders next
  img,         \* cell -> ground tile pasted
  forest,      \* tree parts pasted over the ground: <<ty, tx, variant, part>>
  stdout,      \* lines printed
  plan,        \* the path descriptors the path engine is given, in carving order
  overlay,     \* kind -> the corners set in that kind's overlay bitmask
  routes       \* history: the route of every carve() call so far

vars == <<BIOMES, SHEETS, EXTRA, hashseed, noise, corners, classified, pc,
          passes, cursor, changed, moved, scans, rngpos, tree_mask, gcur, img,
          forest, stdout, plan, overlay, routes>>

config == <<BIOMES, SHEETS, EXTRA, hashseed, noise>>
repairState == <<passes, cursor, changed, moved, scans>>
carveState == <<plan, overlay, routes>>

\* ------------------------------------------------------------ biome table
Entry(b) == CHOOSE e \in {BIOMES[i] : i \in DOMAIN BIOMES} : e.name = b
PRIORITY(b) == Entry(b).priority
FALLBACK(b) == Entry(b).fallback
DENSITY(b)  == Entry(b).density
BiomeNames  == {BIOMES[i].name : i \in DOMAIN BIOMES}

\* The rule lambdas of BIOMES.
Rule(b, s) ==
  CASE b = "water"     -> s.n101 < -10
    [] b = "desert"    -> s.n202 > 20
    [] b = "darkgrass" -> s.n303 < -5
    [] b = "grass"     -> TRUE

\* for b in BIOMES: if rule: corners[y,x]=b; break
RECURSIVE FirstFrom(_, _)
FirstFrom(i, s) ==
  IF i > Len(BIOMES) THEN NoneBiome
  ELSE IF Rule(BIOMES[i].name, s) THEN BIOMES[i].name
  ELSE FirstFrom(i + 1, s)

\* A classifier that ranks by priority instead of declaration order.
ClassifyByPriority(s) ==
  LET ok == {i \in DOMAIN BIOMES : Rule(BIOMES[i].name, s)}
      i == CHOOSE j \in ok : \A k \in ok : BIOMES[j].priority <= BIOMES[k].priority
  IN BIOMES[i].name

ClassifyCorner(s) == FirstFrom(1, s)

\* ----------------------------------------------------------------- repair
\* valid=set(SHEETS)|{tuple(reversed(p)) for p in SHEETS}
valid ==
  {SHEETS[i] : i \in DOMAIN SHEETS} \cup
  {<<SHEETS[i][2], SHEETS[i][1]>> : i \in DOMAIN SHEETS}

\* The far endpoint of the edge at <<y, x>> in direction d.
Far(y, x, d) == IF d = 1 THEN <<y, x + 1>> ELSE <<y + 1, x>>

Illegal(a, b) == a # b /\ <<a, b>> \notin valid

\* loser=a if PRIORITY[a]>PRIORITY[b] else b
Loser(a, b) == IF PRIORITY(a) > PRIORITY(b) THEN a ELSE b

\* The index expression with its two arms exchanged.
LoserAtSwapped(y, x, d, a, b) == IF Loser(a, b) = b THEN <<y, x>> ELSE Far(y, x, d)

\* corners[y+dy if loser==b else y, x+dx if loser==b else x]
LoserAt(y, x, d, a, b) == IF Loser(a, b) = b THEN Far(y, x, d) ELSE <<y, x>>

\* What the assignment stores.
Demoted(a, b) == FALLBACK(Loser(a, b))

\* The scan order of repair(): y, then x, then (1,0) before (0,1).
ScanLast == <<GRID - 1, GRID - 1, 2>>
NextEdge(c) ==
  IF c[3] = 1 THEN <<c[1], c[2], 2>>
  ELSE IF c[2] < GRID - 1 THEN <<c[1], c[2] + 1, 1>>
  ELSE <<c[1] + 1, 0, 1>>

\* -------------------------------------------------------------------- RNG
\* RNG = random.Random(SEED), SEED = 28: the generator's first 32-bit words,
\* each as floor(word * 10000 / 2^32).
MTWords ==
  << 1129, 7423, 1308, 5456, 5972, 7120, 1780, 2264, 1324, 6379, 4640, 7636,
     4175, 2109, 2133, 1443, 3916, 1628, 8422, 9552, 1311, 6064, 1875, 2012,
     277, 4069, 2398, 695, 949, 4203, 9847, 8978, 3145, 6965, 9890, 8253,
     1294, 1763, 9040, 9328, 5064, 5197, 6905, 7228, 6622, 7973, 2706, 6123,
     2325, 9175, 6794, 4489, 1314, 2000, 132, 9345, 7710, 2843, 6330, 6755,
     2601, 786, 5203, 5336, 9099, 9129, 2789, 7256, 1238, 5758, 4172, 8861,
     1675, 2021, 3681, 692, 326, 4293, 7637, 8357, 8064, 4881, 3736, 1595,
     3775, 7974, 2575, 8365, 9538, 3862, 8777, 5043, 6623, 6708, 1749, 2302,
     1723, 3086, 7673, 5871, 1897, 7494, 6885, 5353, 4210, 9446, 310, 2221,
     1976, 614, 9133, 9626, 3223, 3588, 6746, 6928, 7616, 8962, 3985, 1062,
     4991, 8150, 8601, 1489, 7270, 4985, 5209, 2060, 5446, 7905, 4482, 5684,
     4265, 1592, 6710, 4172, 2436, 4655, 8655, 9213, 2943, 4676, 2313, 2360,
     9636, 333, 151, 4355, 4071, 6874, 5525, 2523, 4398, 1375, 8295, 8502,
     6735, 5218, 5042, 9216, 35, 6483, 9846, 4551, 3654, 6742, 3598, 852,
     2195, 4037, 1964, 5566, 1026, 6190, 1313, 1183, 6724, 6450, 2962, 8709,
     5108, 6069, 6525, 4470, 721, 1529, 7600, 7640, 1942, 1708, 8048, 5210,
     8878, 869, 4510, 5063, 3195, 9464, 5059, 4823, 9000, 7373, 9786, 7962,
     7159, 3911, 4009, 7649, 4001, 8476, 6970, 687, 3298, 2412, 7893, 5306,
     3420, 5752, 5758, 9326, 5199, 3748, 5253, 886, 8415, 3331, 8903, 9821,
     7808, 938, 6440, 7716, 3966, 2908, 3919, 8546, 4609, 9582, 8494, 1363 >>
Word(pos) == MTWords[pos + 1]

\* RNG.random() reads two words; the first decides the value to 1/10000.
RngRandom(pos) == [value |-> Word(pos), pos |-> pos + 2]

\* RNG.randint(0, 1): getrandbits(2) of one word, drawn again while it is >= 2.
RECURSIVE RngRandint01(_)
RngRandint01(pos) ==
  IF Word(pos) < 5000
  THEN [value |-> IF Word(pos) >= 2500 THEN 1 ELSE 0, pos |-> pos + 1]
  ELSE RngRandint01(pos + 1)

\* ------------------------------------------------------------- the assets
Blank == [kind |-> "blank", of |-> <<"", "">>, idx |-> 0]
SheetTile(key, i) == [kind |-> "sheet", of |-> key, idx |-> i]
ExtraTile(b, i) == [kind |-> "extra", of |-> <<b, b>>, idx |-> i]

SheetKeys == {SHEETS[i] : i \in DOMAIN SHEETS}

\* PURE.setdefault(hi,sheet[15]); PURE.setdefault(lo,sheet[0]) over SHEETS in order.
HasPure(b) == \E i \in DOMAIN SHEETS : SHEETS[i][1] = b \/ SHEETS[i][2] = b
PURE(b) ==
  LET i == CHOOSE j \in DOMAIN SHEETS :
             /\ SHEETS[j][1] = b \/ SHEETS[j][2] = b
             /\ \A k \in 1..(j - 1) : SHEETS[k][1] # b /\ SHEETS[k][2] # b
  IN IF SHEETS[i][1] = b THEN SheetTile(SHEETS[i], 15) ELSE SheetTile(SHEETS[i], 0)

\* ------------------------------------------------------- hashes and sets
NameIdx(b) == (CHOOSE i \in DOMAIN Names : Names[i] = b) - 1

\* hash(b) of a biome name under the run's hash seed: a small family of
\* assignments without collisions in the low three bits.
Hash(b, hs) ==
  LET v == (NameIdx(b) * (2 * hs + 1) + 3 * hs) % 8
  IN IF v >= 4 THEN v - 8 ELSE v

\* The slot of b in a set's 8-entry table: hash & 7.
Slot(b, hs) == Hash(b, hs) % 8

\* Iteration order of a small set of names: by table slot.
RECURSIVE IterOrder(_, _)
IterOrder(S, hs) ==
  IF S = {} THEN << >>
  ELSE LET m == CHOOSE e \in S : \A o \in S : Slot(e, hs) <= Slot(o, hs)
       IN <<m>> \o IterOrder(S \ {m}, hs)

\* [nw,ne,sw,se].count
CountIn(list, b) == Cardinality({i \in DOMAIN list : list[i] = b})

\* max(kinds, key=list.count): the first element of the iteration with the
\* largest count.
MaxByCount(S, list, hs) ==
  LET order == IterOrder(S, hs)
      i == CHOOSE j \in DOMAIN order :
             /\ \A k \in DOMAIN order : CountIn(list, order[k]) <= CountIn(list, order[j])
             /\ \A k \in 1..(j - 1) : CountIn(list, order[k]) < CountIn(list, order[j])
  IN order[i]

\* ----------------------------------------------------------------- render
\* The four corners of cell <<y, x>>: nw, ne, sw, se.
CellCorners(y, x) ==
  <<corners[<<y, x>>], corners[<<y, x + 1>>], corners[<<y + 1, x>>], corners[<<y + 1, x + 1>>]>>
Kinds(q) == {q[1], q[2], q[3], q[4]}

\* sheet_for(a,b): SHEETS.get((a,b)) or SHEETS.get((b,a)); HI_LO has the same keys.
HasSheet(a, b) == <<a, b>> \in SheetKeys \/ <<b, a>> \in SheetKeys
SheetKeyFor(a, b) == IF <<a, b>> \in SheetKeys THEN <<a, b>> ELSE <<b, a>>

\* idx=(bit(ne)<<0)|(bit(se)<<1)|(bit(sw)<<2)|(bit(nw)<<3)
Bit(c, hi) == IF c = hi THEN 1 ELSE 0
CornerCode(q, hi) == Bit(q[2], hi) + 2 * Bit(q[4], hi) + 4 * Bit(q[3], hi) + 8 * Bit(q[1], hi)

\* a,b=kinds; s=sheet_for(a,b); ... s[idx]
TransitionTile(q, hs) ==
  LET order == IterOrder(Kinds(q), hs)
      key == SheetKeyFor(order[1], order[2])
  IN SheetTile(key, CornerCode(q, key[1]))

\* maj=max(kinds,key=[nw,ne,sw,se].count)
Majority(q, hs) == MaxByCount(Kinds(q), q, hs)

\* h=(x*0x45d9f3b+y*0x2c1b3c6+hash(b))&0xFFFFFFFF; h%len(ex)
TwoTo32Mod(n) == ((65536 % n) * (65536 % n)) % n
ExtraIndex(b, x, y, n, hs) ==
  LET t == x * 73244475 + y * 46248902 + Hash(b, hs)
  IN IF t >= 0 THEN t % n ELSE ((t % n) + TwoTo32Mod(n)) % n

\* Which branch of the ground loop a cell takes.
Branch(q) ==
  IF Cardinality(Kinds(q)) = 1 THEN "decor"
  ELSE IF Cardinality(Kinds(q)) = 2 /\ (\E a, b \in Kinds(q) : a # b /\ HasSheet(a, b))
       THEN "transition"
  ELSE "majority"

NextCell(c) == IF c[2] < GRID - 1 THEN <<c[1], c[2] + 1>> ELSE <<c[1] + 1, 0>>
LastCell == <<GRID - 1, GRID - 1>>

\* ------------------------------------------------------------------ trees
MIN_DIST == 4

\* range(first, stop, 2) as a sequence.
RECURSIVE Range2(_, _)
Range2(first, stop) == IF first >= stop THEN << >> ELSE <<first>> \o Range2(first + 2, stop)

Min(a, b) == IF a < b THEN a ELSE b

\* The candidate cells of one 4-row block, in loop order.
RECURSIVE RowCands(_, _, _)
RowCands(cy, xs, i) ==
  IF i > Len(xs) THEN << >> ELSE <<<<cy, xs[i]>>>> \o RowCands(cy, xs, i + 1)
RECURSIVE BlockCands(_, _, _)
BlockCands(ys, xs, i) ==
  IF i > Len(ys) THEN << >> ELSE RowCands(ys[i], xs, 1) \o BlockCands(ys, xs, i + 1)

\* The biome gate: a corner of the cell is water or desert.
Gated(c) == \E k \in 1..4 : CellCorners(c[1], c[2])[k] \in {"water", "desert"}

\* tree_mask[max(0,cy-MIN_DIST):cy+MIN_DIST+1, max(0,cx-MIN_DIST):cx+MIN_DIST+1].any()
Crowded(mask, c) ==
  \E t \in mask : /\ t[1] >= c[1] - MIN_DIST /\ t[1] <= c[1] + MIN_DIST
                  /\ t[2] >= c[2] - MIN_DIST /\ t[2] <= c[2] + MIN_DIST

\* The candidates of a block one after another; dense holds the cells whose
\* density noise reaches NOISE_TH.
RECURSIVE Plant(_, _, _, _)
Plant(mask, cands, i, dense) ==
  IF i > Len(cands) THEN mask
  ELSE IF Gated(cands[i]) \/ Crowded(mask, cands[i]) \/ cands[i] \notin dense
       THEN Plant(mask, cands, i + 1, dense)
  ELSE Plant(mask \cup {cands[i]}, cands, i + 1, dense)

\* for cyBlock in range(0, GRID, 4): the result is <<mask, rng position>>.
RECURSIVE PlaceBlocks(_, _, _, _)
PlaceBlocks(cyBlock, mask, pos, dense) ==
  IF cyBlock >= GRID THEN <<mask, pos>>
  ELSE LET px == RngRandint01(pos)
           py == RngRandint01(px.pos)
           ys == Range2(cyBlock + py.value, Min(cyBlock + 4, GRID - 1))
           xs == Range2(px.value, GRID - 1)
       IN PlaceBlocks(cyBlock + 4, Plant(mask, BlockCands(ys, xs, 1), 1, dense), py.pos, dense)

\* The cells place_trees() examines from rng position pos on.
RECURSIVE Candidates(_, _)
Candidates(cyBlock, pos) ==
  IF cyBlock >= GRID THEN {}
  ELSE LET px == RngRandint01(pos)
           py == RngRandint01(px.pos)
           ys == Range2(cyBlock + py.value, Min(cyBlock + 4, GRID - 1))
           xs == Range2(px.value, GRID - 1)
       IN {<<ys[i], xs[j]>> : i \in DOMAIN ys, j \in DOMAIN xs}
          \cup Candidates(cyBlock + 4, py.pos)

\* ---------------------------------------------------------------- forests
\* TREE_VARIANT_WEIGHTS.get(major, {"light_green":1}), weights in hundredths.
Weights(major) ==
  CASE major = "grass"     -> << <<"light_green", 20>>, <<"green", 5>>, <<"yellow", 1>> >>
    [] major = "darkgrass" -> << <<"green", 20>>, <<"light_green", 5>>, <<"yellow", 1>> >>
    [] OTHER               -> << <<"light_green", 100>> >>

RECURSIVE SumWeights(_, _)
SumWeights(w, i) == IF i > Len(w) THEN 0 ELSE w[i][2] + SumWeights(w, i + 1)

\* weighted_pick: r = RNG.uniform(0, total); the first key with r <= upto.
RECURSIVE PickFrom(_, _, _, _)
PickFrom(w, i, upto, r) ==
  IF i = Len(w) \/ r <= (upto + w[i][2]) * 10000 THEN w[i][1]
  ELSE PickFrom(w, i + 1, upto + w[i][2], r)
WeightedPick(w, pos) ==
  [value |-> PickFrom(w, 1, 0, SumWeights(w, 1) * RngRandom(pos).value), pos |-> pos + 2]

\* The trees in np.where order (row by row).
RECURSIVE TreeList(_)
TreeList(mask) ==
  IF mask = {} THEN << >>
  ELSE LET t == CHOOSE c \in mask :
                  \A o \in mask : c[1] < o[1] \/ (c[1] = o[1] /\ c[2] <= o[2])
       IN <<t>> \o TreeList(mask \ {t})

\* mapping=[("tl",cx,cy),("tr",cx+1,cy),("bl",cx,cy+1),("br",cx+1,cy+1)]
TreeParts(t, variant) ==
  { <<t[1], t[2], variant, "tl">>, <<t[1], t[2] + 1, variant, "tr">>,
    <<t[1] + 1, t[2], variant, "bl">>, <<t[1] + 1, t[2] + 1, variant, "br">> }

RECURSIVE Paste(_, _, _, _)
Paste(trees, i, pasted, pos) ==
  IF i > Len(trees) THEN <<pasted, pos>>
  ELSE LET q == CellCorners(trees[i][1], trees[i][2])
           v == WeightedPick(Weights(Majority(q, hashseed)), pos)
       IN Paste(trees, i + 1, pasted \cup TreeParts(trees[i], v.value), v.pos)

\* The four corners of the cell w.
WindowCorners(w) ==
  {<<w[1], w[2]>>, <<w[1], w[2] + 1>>, <<w[1] + 1, w[2]>>, <<w[1] + 1, w[2] + 1>>}

\* -------------------------------------------------------- the path engine
\* Section 4 of the script keeps carve() and a_star() outside the file; the
\* definitions of this section follow the design document's PathEngine.

\* A biome cost of 99 or more makes a cell impassable.
Impassable == 99

\* The per-kind cost table, keyed by biome.
CostTable(kind, b) ==
  IF kind = "river"
  THEN CASE b = "water" -> 1 [] b = "desert" -> Impassable [] OTHER -> 2
  ELSE CASE b = "water" -> Impassable [] b = "desert" -> 2 [] OTHER -> 1

\* A cell's biome is the biome of its north-west corner.
CellBiome(c) == corners[c]
CellCost(kind, c) == CostTable(kind, CellBiome(c))

\* Costs are kept in 1/10000: the destination cell's biome cost plus the
\* jitter, a draw of the shared stream scaled by wiggle.
StepCost(kind, c, wiggle, r) == CellCost(kind, c) * 10000 + wiggle * r

Abs(n) == IF n < 0 THEN -n ELSE n
Manhattan(a, b) == Abs(a[1] - b[1]) + Abs(a[2] - b[2])
Heuristic(c, goal) == Manhattan(c, goal) * 10000

\* 4-directional connectivity.
Neighbours(c) ==
  SelectSeq(<< <<c[1] + 1, c[2]>>, <<c[1] - 1, c[2]>>,
               <<c[1], c[2] + 1>>, <<c[1], c[2] - 1>> >>,
            LAMBDA n : n \in Cells)

\* Whether cell a precedes cell b in the open list at equal f.
CellBefore(a, b) == a[1] < b[1] \/ (a[1] = b[1] /\ a[2] <= b[2])

\* The open cell of least f = g + h.
Best(st, goal) ==
  CHOOSE c \in st.open :
    \A d \in st.open :
      LET fc == st.g[c] + Heuristic(c, goal)
          fd == st.g[d] + Heuristic(d, goal)
      IN fc < fd \/ (fc = fd /\ CellBefore(c, d))

\* The expansion of cur: every passable neighbour not yet closed draws its
\* jitter and is relaxed.
RECURSIVE Relax(_, _, _, _, _, _)
Relax(st, cur, nbs, i, kind, wiggle) ==
  IF i > Len(nbs) THEN st
  ELSE LET n == nbs[i]
       IN IF n \in st.closed \/ CellCost(kind, n) >= Impassable
          THEN Relax(st, cur, nbs, i + 1, kind, wiggle)
          ELSE LET d == RngRandom(st.pos)
                   ng == st.g[cur] + StepCost(kind, n, wiggle, d.value)
                   better == st.g[n] < 0 \/ ng < st.g[n]
                   st2 == IF better
                          THEN [st EXCEPT !.g[n] = ng, !.from[n] = cur,
                                          !.open = @ \cup {n}, !.pos = d.pos]
                          ELSE [st EXCEPT !.pos = d.pos]
               IN Relax(st2, cur, nbs, i + 1, kind, wiggle)

\* The route from start to c along the from links.
RECURSIVE Walk(_, _, _)
Walk(from, start, c) ==
  IF c = start THEN <<c>> ELSE Append(Walk(from, start, from[c]), c)

\* a_star(): the route, empty when the open list runs dry, and the stream
\* position the search leaves.
RECURSIVE Search(_, _, _, _, _)
Search(st, start, goal, kind, wiggle) ==
  IF st.open = {} THEN [route |-> << >>, pos |-> st.pos]
  ELSE LET cur == Best(st, goal)
       IN IF cur = goal
          THEN [route |-> Walk(st.from, start, goal), pos |-> st.pos]
          ELSE Search(Relax([st EXCEPT !.open = @ \ {cur}, !.closed = @ \cup {cur}],
                            cur, Neighbours(cur), 1, kind, wiggle),
                      start, goal, kind, wiggle)

AStar(start, goal, kind, wiggle, pos) ==
  Search([open |-> {start}, closed |-> {},
          g |-> [c \in Cells |-> IF c = start THEN 0 ELSE -1],
          from |-> [c \in Cells |-> c], pos |-> pos],
         start, goal, kind, wiggle)

\* Rivers end at water or on the map boundary; roads end where asked.
NeedsAnchor(kind) == kind = "river"
OnBoundary(c) == c[1] \in {0, GRID - 1} \/ c[2] \in {0, GRID - 1}
AnchorOk(c) == CellBiome(c) = "water" \/ OnBoundary(c)

\* The breadth-first search outward from c: the nearest cell that satisfies
\* the anchor predicate, c itself when no cell does.
Snap(kind, c) ==
  IF ~NeedsAnchor(kind) THEN [found |-> TRUE, cell |-> c]
  ELSE LET ok == {a \in Cells : AnchorOk(a)}
       IN IF ok = {} THEN [found |-> FALSE, cell |-> c]
          ELSE [found |-> TRUE,
                cell |-> CHOOSE a \in ok :
                           \A b \in ok :
                             \/ Manhattan(c, a) < Manhattan(c, b)
                             \/ /\ Manhattan(c, a) = Manhattan(c, b)
                                /\ CellBefore(a, b)]

\* The route of carve(kind, start, end, wiggle) from stream position pos.
CarveRoute(p, pos) ==
  LET s == Snap(p.kind, p.start)
      e == Snap(p.kind, p.end)
  IN IF s.found /\ e.found
     THEN AStar(s.cell, e.cell, p.kind, p.wiggle, pos)
     ELSE [route |-> << >>, pos |-> pos]

\* The corners of the route's cells.
RouteCorners(route) ==
  UNION {WindowCorners(route[i]) : i \in DOMAIN route}

\* A bitmask that keeps only the last route.
CarveMaskReplaced(mask, route) == RouteCorners(route)

\* Carving ORs the four corners of every route cell into the bitmask.
CarveMask(mask, route) == mask \cup RouteCorners(route)

\* ----------------------------------------------------------------- inputs
\* The cells in the four corners of the map.
CornerCells == {c \in Cells : c[1] \in {0, GRID - 1} /\ c[2] \in {0, GRID - 1}}

\* Noise fields that are calm (grass) outside the four corners of one of
\* the map's corner cells.
NoiseFields ==
  UNION { { [c \in Corners |-> IF c \in WindowCorners(w) THEN f[c] ELSE CalmSample]
            : f \in [WindowCorners(w) -> NoiseSamples] } : w \in CornerCells }

\* The sub-sequences of SheetFiles: which files the directory holds.
RECURSIVE Pick(_, _)
Pick(S, i) ==
  IF i > Len(SheetFiles) THEN << >>
  ELSE IF i \in S THEN <<SheetFiles[i]>> \o Pick(S, i + 1)
  ELSE Pick(S, i + 1)
SheetLists == {Pick(S, 1) : S \in SUBSET (DOMAIN SheetFiles)}

\* A run's inputs.  The asset directory varies with no decoration strips
\* and hash seed 0; with every sheet and strip present the hash seed varies.
Pipeline ==
  /\ corners = [c \in Corners |-> NoneBiome]
  /\ classified = [c \in Corners |-> NoneBiome]
  /\ pc = "classify"
  /\ passes = 0
  /\ cursor = <<0, 0, 1>>
  /\ changed = 0
  /\ moved = {}
  /\ scans = << >>
  /\ rngpos = 0
  /\ tree_mask = {}
  /\ gcur = <<0, 0>>
  /\ img = [c \in Cells |-> Blank]
  /\ forest = {}
  /\ stdout = << >>
  /\ overlay = [k \in PathKinds |-> {}]
  /\ routes = << >>

Init ==
  /\ BIOMES = CodeBIOMES
  /\ noise \in NoiseFields
  /\ \/ /\ SHEETS \in SheetLists
        /\ EXTRA = [b \in BiomeNames |-> 0]
        /\ hashseed = 0
     \/ /\ SHEETS = SheetFiles
        /\ EXTRA = [b \in BiomeNames |-> MaxExtra]
        /\ hashseed \in HashSeeds
  /\ plan = << >>
  /\ Pipeline

\* The repair scenario: the scenario's catalogue over any part of its two
\* transition sheets.
ScenarioInit ==
  /\ BIOMES = ScenarioBIOMES
  /\ noise \in NoiseFields
  /\ SHEETS \in {SubSeq(ScenarioFiles, i, j) : i \in 1..3, j \in 0..2}
  /\ EXTRA = [b \in BiomeNames |-> 0]
  /\ hashseed \in HashSeeds
  /\ plan = << >>
  /\ Pipeline

\* The path descriptors of a run: rivers and roads between opposite corners
\* of the map, with and without wiggle.
PathSet ==
  { [kind |-> "river", start |-> <<0, 0>>, end |-> <<GRID - 1, GRID - 1>>, wiggle |-> 0],
    [kind |-> "river", start |-> <<0, 0>>, end |-> <<GRID - 1, GRID - 1>>, wiggle |-> 2],
    [kind |-> "road", start |-> <<0, 0>>, end |-> <<GRID - 1, GRID - 1>>, wiggle |-> 2],
    [kind |-> "road", start |-> <<0, GRID - 1>>, end |-> <<GRID - 1, 0>>, wiggle |-> 0] }
Plans == {<<d, e>> : d \in PathSet, e \in PathSet}

\* A run with the path engine in place: two paths to carve, every sheet
\* present.
CarveInit ==
  /\ BIOMES = CodeBIOMES
  /\ noise \in NoiseFields
  /\ SHEETS = SheetFiles
  /\ EXTRA = [b \in BiomeNames |-> 0]
  /\ hashseed = 0
  /\ plan \in Plans
  /\ Pipeline

\* ---------------------------------------------------------------- actions
\* Lines 126-132: the classification loops over every corner.
Classify ==
  /\ pc = "classify"
  /\ corners' = [c \in Corners |-> ClassifyCorner(noise[c])]
  /\ classified' = corners'
  /\ pc' = "repair"
  /\ UNCHANGED <<config, carveState, repairState, rngpos, tree_mask, gcur, img, forest, stdout>>

\* One iteration of repair()'s innermost loop; on the last edge of a scan,
\* the return and the for/break of lines 147-148 as well.
RepairEdge ==
  /\ pc = "repair"
  /\ LET y == cursor[1]
         x == cursor[2]
         d == cursor[3]
         a == corners[<<y, x>>]
         b == corners[Far(y, x, d)]
         hit == Illegal(a, b)
         at == LoserAt(y, x, d, a, b)
         grid == IF hit THEN [corners EXCEPT ![at] = Demoted(a, b)] ELSE corners
         count == IF hit THEN changed + 1 ELSE changed
         alt == IF hit /\ grid # corners THEN moved \cup {at} ELSE moved
     IN /\ corners' = grid
        /\ IF cursor # ScanLast
           THEN /\ cursor' = NextEdge(cursor)
                /\ changed' = count
                /\ moved' = alt
                /\ UNCHANGED <<passes, pc, scans>>
           ELSE /\ passes' = passes + 1
                /\ scans' = Append(scans, <<count, Cardinality(alt)>>)
                /\ cursor' = <<0, 0, 1>>
                /\ changed' = 0
                /\ moved' = {}
                /\ pc' = IF count = 0 \/ passes + 1 = MaxPasses THEN "trees" ELSE "repair"
  /\ UNCHANGED <<config, carveState, classified, rngpos, tree_mask, gcur, img, forest, stdout>>

\* place_trees(), line 182.  The density noise is an input: any set of
\* cells may reach the threshold.
PlaceTrees ==
  /\ pc = "trees"
  /\ \E dense \in SUBSET Candidates(0, rngpos) :
       LET r == PlaceBlocks(0, tree_mask, rngpos, dense)
       IN tree_mask' = r[1] /\ rngpos' = r[2]
  /\ pc' = "paths"
  /\ UNCHANGED <<config, carveState, corners, classified, repairState, gcur, img, forest, stdout>>

\* Section 4, lines 187-191: one carve() call, on the next path of the plan.
Carve ==
  /\ pc = "paths"
  /\ Len(routes) < Len(plan)
  /\ LET p == plan[Len(routes) + 1]
         r == CarveRoute(p, rngpos)
     IN /\ overlay' = [overlay EXCEPT ![p.kind] = CarveMask(@, r.route)]
        /\ routes' = Append(routes, r.route)
        /\ rngpos' = r.pos
  /\ UNCHANGED <<config, plan, corners, classified, repairState, pc, tree_mask, gcur,
                 img, forest, stdout>>

\* Section 4 ends when every path of the plan is carved; the script as it
\* stands has none.
PathsCarved ==
  /\ pc = "paths"
  /\ Len(routes) = Len(plan)
  /\ pc' = "render"
  /\ UNCHANGED <<config, carveState, corners, classified, repairState, rngpos, tree_mask,
                 gcur, img, forest, stdout>>

Advance ==
  IF gcur = LastCell THEN pc' = "forest" /\ gcur' = gcur
  ELSE pc' = pc /\ gcur' = NextCell(gcur)

\* One iteration of the ground loop, lines 208-222, on a cell of one biome.
\* The patch noise of decor() is an input: negative or not.
RenderInterior ==
  /\ pc = "render"
  /\ LET q == CellCorners(gcur[1], gcur[2])
         b == q[1]
     IN /\ Branch(q) = "decor"
        /\ HasPure(b)
        /\ \/ /\ EXTRA[b] = 0
              /\ img' = [img EXCEPT ![gcur] = PURE(b)]
              /\ UNCHANGED rngpos
           \/ /\ EXTRA[b] > 0
              /\ img' = [img EXCEPT ![gcur] = PURE(b)]
              /\ UNCHANGED rngpos
           \/ /\ EXTRA[b] > 0
              /\ LET u == RngRandom(rngpos)
                 IN /\ rngpos' = u.pos
                    /\ img' = [img EXCEPT ![gcur] =
                                 IF u.value >= DENSITY(b) THEN PURE(b)
                                 ELSE ExtraTile(b, ExtraIndex(b, gcur[2], gcur[1], EXTRA[b], hashseed))]
  /\ Advance
  /\ UNCHANGED <<config, carveState, corners, classified, repairState, tree_mask, forest, stdout>>

\* The ground loop on a cell of two biomes with a transition sheet.
RenderTransition ==
  /\ pc = "render"
  /\ LET q == CellCorners(gcur[1], gcur[2])
     IN /\ Branch(q) = "transition"
        /\ img' = [img EXCEPT ![gcur] = TransitionTile(q, hashseed)]
  /\ Advance
  /\ UNCHANGED <<config, carveState, corners, classified, repairState, rngpos, tree_mask, forest, stdout>>

\* The ground loop's last branch: the majority biome's pure tile.
RenderMajority ==
  /\ pc = "render"
  /\ LET q == CellCorners(gcur[1], gcur[2])
     IN /\ Branch(q) = "majority"
        /\ HasPure(Majority(q, hashseed))
        /\ img' = [img EXCEPT ![gcur] = PURE(Majority(q, hashseed))]
  /\ Advance
  /\ UNCHANGED <<config, carveState, corners, classified, repairState, rngpos, tree_mask, forest, stdout>>

\* EXTRA[b] or PURE[maj] raises KeyError: the biome is in no sheet.
RenderKeyError ==
  /\ pc = "render"
  /\ LET q == CellCorners(gcur[1], gcur[2])
     IN \/ Branch(q) = "decor" /\ ~HasPure(q[1])
        \/ Branch(q) = "majority" /\ ~HasPure(Majority(q, hashseed))
  /\ pc' = "crashed"
  /\ UNCHANGED <<config, carveState, corners, classified, repairState, rngpos, tree_mask, gcur,
                 img, forest, stdout>>

\* The forest loop, lines 225-241.
PasteForests ==
  /\ pc = "forest"
  /\ LET r == Paste(TreeList(tree_mask), 1, forest, rngpos)
     IN forest' = r[1] /\ rngpos' = r[2]
  /\ pc' = "save"
  /\ UNCHANGED <<config, carveState, corners, classified, repairState, tree_mask, gcur, img, stdout>>

\* img.save(out); print("map saved")
Save ==
  /\ pc = "save"
  /\ stdout' = Append(stdout, "map saved")
  /\ pc' = "done"
  /\ UNCHANGED <<config, carveState, corners, classified, repairState, rngpos, tree_mask, gcur,
                 img, forest>>

Next ==
  \/ Classify
  \/ RepairEdge
  \/ PlaceTrees
  \/ PathsCarved
  \/ RenderInterior
  \/ RenderTransition
  \/ RenderMajority
  \/ RenderKeyError
  \/ PasteForests
  \/ Save

\* ------------------------------------------------------------- properties
LoopEnded == pc \notin {"classify", "repair"}

\* The edges of the whole corner grid: every corner with its right and its
\* lower neighbour.
GridEdges ==
  {e \in Corners \X Corners :
     \/ e[2] = <<e[1][1], e[1][2] + 1>>
     \/ e[2] = <<e[1][1] + 1, e[1][2]>>}

\* The edges repair() looks at.
ScannedEdges == {e \in GridEdges : e[1][1] < GRID /\ e[1][2] < GRID}

Legal(e) == corners[e[1]] = corners[e[2]] \/ <<corners[e[1]], corners[e[2]]>> \in valid
Residual == {e \in GridEdges : ~Legal(e)}

Rendered(c) == img[c] # Blank
QuadOf(c) == CellCorners(c[1], c[2])

\* C1: once the repair loop has ended, the two biomes of every edge of the
\* corner grid, the last row and column included, are equal or a valid pair.
C1_AdjacencyClosure == LoopEnded => \A e \in GridEdges : Legal(e)

\* C3: a rendered cell with exactly two biomes shows a tile of that pair's
\* sheet, at index (NE high) + 2 (SE high) + 4 (SW high) + 8 (NW high).
C3_TwoBiomeCellsUseSheet ==
  \A c \in Cells :
    (Rendered(c) /\ Cardinality(Kinds(QuadOf(c))) = 2) =>
      LET q == QuadOf(c)
          t == img[c]
          hi == t.of[1]
      IN /\ t.kind = "sheet"
         /\ t.of \in SheetKeys
         /\ {t.of[1], t.of[2]} = Kinds(q)
         /\ t.idx = (IF q[2] = hi THEN 1 ELSE 0) + (IF q[4] = hi THEN 2 ELSE 0)
                    + (IF q[3] = hi THEN 4 ELSE 0) + (IF q[1] = hi THEN 8 ELSE 0)

\* C4: the tile of every rendered cell is the tile a run with any other
\* string-hash seed draws from the same grid, sheets and draws.
C4_TilesIndependentOfHash ==
  \A c \in Cells : \A hs \in HashSeeds :
    Rendered(c) =>
      LET q == QuadOf(c)
      IN CASE Branch(q) = "decor" ->
                img[c].kind = "extra" =>
                  img[c] = ExtraTile(q[1], ExtraIndex(q[1], c[2], c[1], EXTRA[q[1]], hs))
           [] Branch(q) = "transition" -> img[c] = TransitionTile(q, hs)
           [] OTHER -> HasPure(Majority(q, hs)) /\ img[c] = PURE(Majority(q, hs))

\* The biome most frequent among nw, ne, sw, se; among equals the one seen
\* first in that order.
FirstSeenMajority(q) ==
  LET i == CHOOSE j \in 1..4 :
             /\ \A k \in 1..4 : CountIn(q, q[k]) <= CountIn(q, q[j])
             /\ \A k \in 1..(j - 1) : CountIn(q, q[k]) < CountIn(q, q[j])
  IN q[i]

\* C5: a rendered cell with three or four biomes shows the pure tile of the
\* most frequent corner biome, ties going to the first of NW, NE, SW, SE.
C5_MajorityFirstSeen ==
  \A c \in Cells :
    (Rendered(c) /\ Cardinality(Kinds(QuadOf(c))) >= 3) =>
      img[c] = PURE(FirstSeenMajority(QuadOf(c)))

\* What a run whose repair converged prints.
QuietOutput == <<"map saved">>

\* C6: a finished run that left illegal edges in the grid tells its caller:
\* its output differs from the output of a run that converged.
C6_NonConvergenceReported == (pc = "done" /\ Residual # {}) => stdout # QuietOutput

\* C7: the loop ends after at most 4 scans, the last of them being the
\* first that altered no corner (or the fourth).
C7_RepairLifecycle ==
  LoopEnded =>
    /\ Len(scans) <= MaxPasses
    /\ \A i \in 1..(Len(scans) - 1) : scans[i][2] > 0
    /\ scans[Len(scans)][2] = 0 \/ Len(scans) = MaxPasses

\* C8: after classification every corner holds exactly one biome, a biome
\* whose rule holds there while the rule of every biome declared before it
\* (water, desert, darkgrass, grass) fails; grass only where all three fail.
C8_FirstTrueWins ==
  pc # "classify" =>
    \A c \in Corners :
      LET b == classified[c]
          s == noise[c]
      IN /\ b \in {"water", "desert", "darkgrass", "grass"}
         /\ (b = "water") = (s.n101 < -10)
         /\ (b = "desert") = (~(s.n101 < -10) /\ s.n202 > 20)
         /\ (b = "darkgrass") = (~(s.n101 < -10) /\ ~(s.n202 > 20) /\ s.n303 < -5)
         /\ (b = "grass") = (~(s.n101 < -10) /\ ~(s.n202 > 20) /\ ~(s.n303 < -5))

C8_Witness ==
  /\ pc = "repair"
  /\ \E c \in Corners : classified[c] = "desert" /\ noise[c].n303 < -5
  /\ \E c \in Corners : classified[c] = "water" /\ noise[c].n202 > 20
  /\ \E c \in Corners : classified[c] = "grass"

\* The biomes reachable from b by fallback links.
Chain(b) ==
  CASE b = "water"     -> {"water", "grass"}
    [] b = "desert"    -> {"desert", "darkgrass", "grass"}
    [] b = "darkgrass" -> {"darkgrass", "grass"}
    [] OTHER           -> {"grass"}

ChainInv == pc # "classify" => \A c \in Corners : corners[c] \in Chain(classified[c])
GrassStays == \A c \in Corners : corners[c] = "grass" => corners'[c] = "grass"

\* C10: during and after repair every corner holds a biome on the fallback
\* chain of the biome the classifier gave it, and a grass corner stays grass.
C10_FallbackChain == []ChainInv /\ [][GrassStays]_vars

\* A desert corner has reached grass, and a scan has counted changes while
\* altering no corner (its losers were grass).
C10_Witness ==
  /\ \E c \in Corners : classified[c] = "desert" /\ corners[c] = "grass"
  /\ \E i \in DOMAIN scans : scans[i][1] > 0 /\ scans[i][2] = 0

\* Under the scenario's catalogue and its two valid pairs.
ScenarioHolds == BIOMES = ScenarioBIOMES /\ SHEETS = ScenarioFiles

WaterDesert(e) ==
  {classified[e[1]], classified[e[2]]} = {"water", "desert"}
DesertEnd(e) == IF classified[e[1]] = "desert" THEN e[1] ELSE e[2]

\* C2: in the scenario, once the repair loop has ended, the desert endpoint
\* of every water-desert edge of the classified grid holds grass and every
\* edge of the grid is legal.
C2_ScenarioRepair ==
  (LoopEnded /\ ScenarioHolds) =>
    /\ \A e \in GridEdges : WaterDesert(e) => corners[DesertEnd(e)] = "grass"
    /\ \A e \in GridEdges : Legal(e)

\* C2, on the edges repair() scans only: holds.
C2_ScenarioScannedEdges ==
  (LoopEnded /\ ScenarioHolds) =>
    /\ \A e \in ScannedEdges : WaterDesert(e) => corners[DesertEnd(e)] = "grass"
    /\ \A e \in ScannedEdges : Legal(e)

\* C2, the demotion rule: a step on an illegal edge stores the fallback of
\* the endpoint with the larger priority number in that endpoint's corner
\* and leaves every other corner alone.
C2_DemotionRule ==
  [][ LET p == <<cursor[1], cursor[2]>>
          f == Far(cursor[1], cursor[2], cursor[3])
          a == corners[p]
          b == corners[f]
      IN (pc = "repair" /\ a # b /\ <<a, b>> \notin valid) =>
           IF PRIORITY(a) > PRIORITY(b)
           THEN corners' = [corners EXCEPT ![p] = FALLBACK(a)]
           ELSE corners' = [corners EXCEPT ![f] = FALLBACK(b)] ]_vars

\* C7, the frame: once the loop has ended no step writes the corner grid.
C7_GridFrozen == [][LoopEnded => corners' = corners]_vars

\* A carve() step that repeats the call before it: same kind, start, end
\* and wiggle.
Recarved ==
  /\ Len(routes) >= 1
  /\ Len(routes') = Len(routes) + 1
  /\ plan[Len(routes')] = plan[Len(routes)]

NoBitSet == \A k \in PathKinds : overlay[k] = {}
Grows == \A k \in PathKinds : overlay[k] \subseteq overlay'[k]
CarvedByOr ==
  Len(routes') > Len(routes) =>
    LET p == plan[Len(routes')]
    IN \A k \in PathKinds :
         overlay'[k] = IF k = p.kind
                       THEN overlay[k] \cup RouteCorners(routes'[Len(routes')])
                       ELSE overlay[k]
RecarvedNoWiggle == (Recarved /\ plan[Len(routes)].wiggle = 0) => overlay' = overlay

NextCarve ==
  \/ Classify
  \/ RepairEdge
  \/ PlaceTrees
  \/ Carve
  \/ PathsCarved

Spec == Init /\ [][Next]_vars
CarveSpec == CarveInit /\ [][NextCarve]_vars
ScenarioSpec == ScenarioInit /\ [][Next]_vars
====
